---- MODULE Spec2Model ----
(***************************************************************************)
(* Model of src/service/live-lottery.service.ts: the lottery ("tian xuan")  *)
(* pipeline and the red-packet pipeline.  Every await of a remote call is   *)
(* one step; the remote service answers nondeterministically.               *)
(*                                                                          *)
(* Strings are sequences of characters.  The Chinese characters of the     *)
(* source are written in pinyin: "guan","zhu4","zhu3","bo" is the marker    *)
(* of getRequireUp, "ce","shi","jiang","pin" spell the award names.         *)
(***************************************************************************)
EXTENDS Integers, Sequences, FiniteSets, TLC

VARIABLES
    TaskConfig,       \* LOTTERY_UP_BLACKLIST, LOTTERY_EXCLUDE, LOTTERY_INCLUDE, LOTTERY_PAGE_NUM
    TaskModule,       \* userLevel
    newFollowUp,      \* the module-level accumulator (line 23)
    pc,               \* where the running entry point is
    lotType,          \* which entry point runs: "lottery" | "redPack"
    areaList,         \* result of getLiveArea
    ai, aj,           \* position of the two for-of loops over areaList
    page,             \* loop variable of doLotteryArea / doRedPackArea
    roomList,         \* rooms of the page still to be checked
    resp,             \* the response the current room check awaited
    checkedRoomList,  \* rooms accepted on this page, then the rooms still to join
    ret,              \* what the entry point returned, or that it raised
    calls,            \* history: number of remote calls of each kind in this run
    nAccepted,        \* history: rooms the eligibility check accepted in this run
    last,             \* history: the most recent remote call and its outcome
    clean,            \* history: every remote call of this run returned code 0
    listed,           \* history: rooms listed so far with the badge the run looks for
    remote,           \* the remote service: how many rooms and sub-categories it lists,
                      \* which draws it serves
    joined,           \* history: room ids a join request was issued for in this run
    failed,           \* history: the draws whose join failed, and after how many fetches
    fetched,          \* history: data.list, when the last step was a page fetch
    fetches,          \* history: the arguments of the page fetches of this run, in order
    arg,              \* history: the room of the latest check or join request of the page
    slept,            \* history: the apiDelay durations awaited since the latest remote call
    own,              \* history: the entries the joins of this invocation recorded
    other,            \* another invocation of an entry point, running in the same process
    fc                \* the serverless handler of index.fc.ts: where it is, what it has done

vars == <<TaskConfig, TaskModule, newFollowUp, pc, lotType, areaList, ai, aj, page,
          roomList, resp, checkedRoomList, ret, calls, nAccepted, last, clean, listed,
          remote, joined, failed, fetched, fetches, arg, slept, own, other, fc>>

-----------------------------------------------------------------------------
(* Bounds of the model *)

\* most rooms the remote service lists in a run whose termination is checked
MaxListedFair == 1
\* most rooms the remote service lists in a run that another invocation overlaps
MaxListedOverlap == 1
\* most successful joins of one overlapping invocation
MaxOtherJoins == 1

\* most rooms the remote service lists in one run
MaxListed == 2
\* the same, when it serves every draw of Draws and the run has any configuration
MaxListedAllDraws == 1
\* most sub-categories in the category tree
MaxAreas == 1

\* the same two, in a run whose order of remote calls is checked
MaxListedOrder == 2
MaxAreasOrder == 2

-----------------------------------------------------------------------------
(* Sequences *)

RECURSIVE SeqSum(_)
SeqSum(s) == IF s = <<>> THEN 0 ELSE Head(s) + SeqSum(Tail(s))

SeqsUpTo(S, n) == UNION {[1..k -> S] : k \in 0..n}

Range(s) == {s[i] : i \in 1..Len(s)}

\* Array.prototype.includes
Includes(s, x) == \E i \in 1..Len(s) : s[i] = x

\* s.slice(a - 1, b)
Slice(s, a, b) == [i \in 1..(b - a + 1) |-> s[a + i - 1]]

\* pat occurs in s at position i
OccursAt(s, pat, i) ==
    /\ i + Len(pat) - 1 <= Len(s)
    /\ \A k \in 1..Len(pat) : s[i + k - 1] = pat[k]

\* String.prototype.match with a pattern of literal characters: a substring test
Match(s, pat) == \E i \in 1..(Len(s) + 1) : OccursAt(s, pat, i)

-----------------------------------------------------------------------------
(* Enumerations of ../enums/live-lottery.enum, as symbolic values *)

PendentTime == "Time"
PendentRedPacket == "RedPacket"
RequireNone == "None"
RequireFollow == "Follow"
RequireLevel == "Level"
RequireOther == "Fans"
StatusEnabled == "Enabled"
StatusOther == "Ended"

Null == [null |-> TRUE]
Undefined == [undefined |-> TRUE]

-----------------------------------------------------------------------------
(* The accumulator's entries: number | string *)

NumEntry(uid) == [type |-> "number", v |-> <<uid>>]
StrEntry(s) == [type |-> "string", v |-> s]

\* utils.pushIfNotExist(array, item)
pushIfNotExist(array, item) == IF Includes(array, item) THEN array ELSE Append(array, item)

RECURSIVE pushAllIfNotExist(_, _)
pushAllIfNotExist(array, items) ==
    IF items = <<>> THEN array
    ELSE pushAllIfNotExist(pushIfNotExist(array, Head(items)), Tail(items))

-----------------------------------------------------------------------------
(* getRequireUp (lines 155-160) *)

Marker == <<"guan", "zhu4", "zhu3", "bo">>
IsSpace(c) == c = " "

\* requireText.replace(Marker, ''): the first occurrence only
ReplaceFirst(s, pat) ==
    IF Match(s, pat)
    THEN LET i == CHOOSE i \in 1..(Len(s) + 1) :
                    OccursAt(s, pat, i) /\ \A k \in 1..(i - 1) : ~OccursAt(s, pat, k)
         IN  Slice(s, 1, i - 1) \o Slice(s, i + Len(pat), Len(s))
    ELSE s

\* requireText.split(/\s*\+\s*/)
RECURSIVE SplitPlus(_)
SplitPlus(s) ==
    IF ~Includes(s, "+") THEN <<s>>
    ELSE LET p == CHOOSE p \in 1..Len(s) : s[p] = "+" /\ \A k \in 1..(p - 1) : s[k] # "+"
             \* the match starts where the run of spaces before the "+" starts
             a == CHOOSE a \in 0..(p - 1) :
                     /\ \A k \in (a + 1)..(p - 1) : IsSpace(s[k])
                     /\ (a > 0 => ~IsSpace(s[a]))
             \* and ends where the run of spaces after it ends
             b == CHOOSE b \in (p + 1)..(Len(s) + 1) :
                     /\ \A k \in (p + 1)..(b - 1) : IsSpace(s[k])
                     /\ (b <= Len(s) => ~IsSpace(s[b]))
         IN  <<Slice(s, 1, a)>> \o SplitPlus(Slice(s, b, Len(s)))

getRequireUpNoShift(requireText) == SplitPlus(ReplaceFirst(requireText, Marker))
getRequireUp(requireText) == Tail(SplitPlus(ReplaceFirst(requireText, Marker)))

-----------------------------------------------------------------------------
(* Configuration (../config/globalVar): the values a run may be started with *)

Test == <<"ce", "shi">>
TestPrize == <<"ce", "shi", "jiang">>

\* default of TaskConfig.LOTTERY_PAGE_NUM, and of the parameter num
PageNum == 2

Blacklists == {<<>>, <<"u1">>}
PatternConfigs == {[exclude |-> <<>>, include |-> <<>>],
                   [exclude |-> <<Test>>, include |-> <<TestPrize>>]}
UserLevels == {9, 10, 15}

TaskConfigs ==
    {[LOTTERY_UP_BLACKLIST |-> b, LOTTERY_EXCLUDE |-> p.exclude,
      LOTTERY_INCLUDE |-> p.include, LOTTERY_PAGE_NUM |-> PageNum] :
        b \in Blacklists, p \in PatternConfigs}

-----------------------------------------------------------------------------
(* What the remote service may answer *)

Thrown == [k |-> "throw"]
Envelope(code, data) == [k |-> "resp", code |-> code, data |-> data]
Codes == {0, 1}

\* getArea: data.data is a list of major categories, each with a list of sub-categories
AreaShapes(n) == {s \in {<<>>, <<1>>, <<0, 1>>, <<2>>, <<1, 1>>, <<3>>, <<1, 0, 2>>, <<2, 2>>} :
                    SeqSum(s) <= n}
AreaItem(i, j) == [id |-> <<"area", i, j>>, parent_id |-> <<"parent", i>>]
AreaData(shape) ==
    [data |-> [i \in 1..Len(shape) |-> [list |-> [j \in 1..shape[i] |-> AreaItem(i, j)]]]]
AreaResponses(n) ==
    {Thrown, Envelope(1, Undefined)}
        \cup {Envelope(c, AreaData(s)) : c \in Codes, s \in AreaShapes(n)}

\* getLiveRoom: data.list is a page of room listings
RoomIds == {"r1", "r2"}
UidOf(roomid) == IF roomid = "r1" THEN "u1" ELSE "u2"
Pendants == {Undefined, [pendent_id |-> PendentTime], [pendent_id |-> PendentRedPacket],
             [pendent_id |-> "Other"]}
Listings == {[roomid |-> r, uid |-> UidOf(r), pendant_info |-> [two |-> b]] :
                r \in RoomIds, b \in Pendants}
\* a page lists a room at most once
Pages(n) ==
    {l \in SeqsUpTo(Listings, n) :
        \A i, j \in 1..Len(l) : l[i].roomid = l[j].roomid => i = j}
RoomResponses(n) ==
    {Thrown, Envelope(1, Undefined)}
        \cup {Envelope(c, [list |-> l]) : c \in Codes, l \in Pages(n)}

\* checkLottery: data is null or the details of the room's draw
AwardNames == {<<"jiang", "pin">>, <<"ce", "shi">>, <<"ce", "shi", "jiang", "pin">>}
RequireTextABC == Marker \o <<" ", "A", " ", "+", " ", "B", " ", "+", " ", "C">>
RequireTextA == Marker \o <<" ", "A">>
RequireTextNoMarker == <<"A", "+", "C", " ", "+", "C">>
RequireTexts == {RequireTextABC, RequireTextA, RequireTextNoMarker}

Draw(roomid, name, status, price, type, text) ==
    [id |-> roomid, gift_id |-> 0, gift_num |-> 0, award_name |-> name, status |-> status,
     gift_price |-> price, require_type |-> type, require_value |-> 10,
     require_text |-> text]
Draws(roomid) ==
    {Draw(roomid, n, s, p, t, <<>>) :
        n \in AwardNames, s \in {StatusEnabled, StatusOther}, p \in {0, 1},
        t \in {RequireNone, RequireLevel, RequireOther}}
    \cup {Draw(roomid, n, s, p, RequireFollow, x) :
        n \in AwardNames, s \in {StatusEnabled, StatusOther}, p \in {0, 1},
        x \in RequireTexts}
\* a details payload without its award_name field
NoAwardName(roomid) ==
    [id |-> roomid, gift_id |-> 0, gift_num |-> 0, status |-> StatusEnabled,
     gift_price |-> 0, require_type |-> RequireNone, require_value |-> 10,
     require_text |-> <<>>]
\* the draws of one award name that is on no list: every requirement type free of
\* charge, and one paid draw
CoreDraws(roomid) ==
    {d \in Draws(roomid) :
        /\ d.award_name = <<"jiang", "pin">> /\ d.status = StatusEnabled
        /\ (d.gift_price = 0 \/ d.require_type = RequireNone)}
CheckResponses(roomid, draws) ==
    {Thrown, Envelope(1, Null), Envelope(0, Null), Envelope(0, NoAwardName(roomid))}
        \cup {Envelope(0, d) : d \in IF draws = "all" THEN Draws(roomid) ELSE CoreDraws(roomid)}

JoinOutcomes == {"ok", "fail", "throw"}

-----------------------------------------------------------------------------
(* getLiveArea (lines 29-42): "throw" or the two-level list of areas *)

LiveArea(r) ==
    IF r = Thrown \/ r.data = Undefined THEN Thrown
    ELSE [k |-> "value",
          v |-> [i \in 1..Len(r.data.data) |->
                    [j \in 1..Len(r.data.data[i].list) |->
                        [areaId |-> r.data.data[i].list[j].id,
                         parentId |-> r.data.data[i].list[j].parent_id]]]]

(* pendentLottery (lines 47-62) *)

HasPendant(item, id) ==
    item.pendant_info.two # Undefined /\ item.pendant_info.two.pendent_id = id

pendentLotteryElse(list) ==
    [lotteryTime |-> SelectSeq(list, LAMBDA item : HasPendant(item, PendentTime)),
     lotteryPacket |-> SelectSeq(list, LAMBDA item :
                          item.pendant_info.two # Undefined
                              /\ ~HasPendant(item, PendentTime))]

pendentLottery(list) ==
    [lotteryTime |-> SelectSeq(list, LAMBDA item : HasPendant(item, PendentTime)),
     lotteryPacket |-> SelectSeq(list, LAMBDA item : HasPendant(item, PendentRedPacket))]

(* getLotteryRoomList (lines 70-87): "throw" or the rooms of the page for lotType *)

LotteryRoomListSwallow(r, type) ==
    IF r = Thrown \/ r.data = Undefined THEN [k |-> "value", v |-> <<>>]
    ELSE [k |-> "value",
          v |-> IF type = "lottery" THEN pendentLottery(r.data.list).lotteryTime
                ELSE pendentLottery(r.data.list).lotteryPacket]

LotteryRoomList(r, type) ==
    IF r = Thrown \/ r.data = Undefined THEN Thrown
    ELSE [k |-> "value",
          v |-> IF type = "lottery" THEN pendentLottery(r.data.list).lotteryTime
                ELSE pendentLottery(r.data.list).lotteryPacket]

(* checkLotteryRoom (lines 112-149) *)

IsBlacklistedNever(room, cfg) == FALSE
IsBlacklisted(room, cfg) == Includes(cfg.LOTTERY_UP_BLACKLIST, room.uid)

SomeMatch(patterns, data) ==
    \E i \in 1..Len(patterns) : Match(data.award_name, patterns[i])

\* line 134
IsSkippedAwardExcludeWins(isInclude, isExclude) == isExclude
IsSkippedAward(isInclude, isExclude) == ~isInclude /\ isExclude

\* line 138
IsPaidNever(data) == FALSE
IsPaid(data) == data.gift_price > 0

\* line 142
LevelEnoughStrict(data, mod) ==
    data.require_type = RequireLevel /\ mod.userLevel > data.require_value
LevelEnough(data, mod) ==
    data.require_type = RequireLevel /\ mod.userLevel >= data.require_value

\* lines 131-148 on a details payload: "throw" | "accept" | "skip".  Reading
\* data.award_name.match raises when the payload has no award_name and a list has a
\* pattern to try
LotteryVerdict(data, cfg, mod) ==
    IF "award_name" \notin DOMAIN data
          /\ (cfg.LOTTERY_EXCLUDE # <<>> \/ cfg.LOTTERY_INCLUDE # <<>>)
    THEN "throw"
    ELSE LET isExclude == SomeMatch(cfg.LOTTERY_EXCLUDE, data)
             isInclude == SomeMatch(cfg.LOTTERY_INCLUDE, data)
         IN  IF IsSkippedAward(isInclude, isExclude) THEN "skip"
             ELSE IF data.status # StatusEnabled THEN "skip"
             ELSE IF IsPaid(data) THEN "skip"
             ELSE IF data.require_type # RequireNone /\ data.require_type # RequireFollow
                  THEN IF LevelEnough(data, mod) THEN "accept" ELSE "skip"
             ELSE "accept"

\* lines 117-149 on the awaited response
CheckVerdict(r, cfg, mod) ==
    IF r = Thrown THEN "skip"
    ELSE IF r.code # 0 THEN "skip"
    ELSE IF r.data = Null THEN "skip"
    ELSE LotteryVerdict(r.data, cfg, mod)

(* doLottery (lines 165-188): the accumulator after a join that ended in outcome *)

AfterLotteryAnyType(acc, lottery, outcome) ==
    IF outcome = "ok"
    THEN pushAllIfNotExist(pushIfNotExist(acc, NumEntry(lottery.uid)),
                           [i \in 1..Len(getRequireUp(lottery.require_text)) |->
                               StrEntry(getRequireUp(lottery.require_text)[i])])
    ELSE acc

AfterLottery(acc, lottery, outcome) ==
    IF outcome = "ok" /\ lottery.require_type = RequireFollow
    THEN pushAllIfNotExist(pushIfNotExist(acc, NumEntry(lottery.uid)),
                           [i \in 1..Len(getRequireUp(lottery.require_text)) |->
                               StrEntry(getRequireUp(lottery.require_text)[i])])
    ELSE acc

(* getRedPacketId (lines 227-243): the lot id, or undefined *)

\* checkRedPacket: data.popularity_red_pocket is absent or a list of red packets
NoRedPocket == [other |-> TRUE]
LotStatuses == {1, 2}
PacketLists(roomid) ==
    {<<>>}
        \cup {<<[lot_id |-> roomid, lot_status |-> s]>> : s \in LotStatuses}
        \cup {<<[lot_id |-> roomid, lot_status |-> s], [lot_id |-> roomid, lot_status |-> 1]>> :
                s \in LotStatuses}
PacketResponses(roomid) ==
    {Thrown, Envelope(1, Undefined)}
        \cup {Envelope(0, NoRedPocket)}
        \cup {Envelope(0, [popularity_red_pocket |-> l]) : l \in PacketLists(roomid)}

RedPacketIdAnyStatus(r) ==
    IF r = Thrown THEN Undefined
    ELSE IF r.code # 0 THEN Undefined
    ELSE IF "popularity_red_pocket" \notin DOMAIN r.data THEN Undefined
    ELSE IF r.data.popularity_red_pocket = <<>> THEN Undefined
    ELSE [lot_id |-> r.data.popularity_red_pocket[1].lot_id]

RedPacketId(r) ==
    IF r = Thrown THEN Undefined
    ELSE IF r.code # 0 THEN Undefined
    ELSE IF "popularity_red_pocket" \notin DOMAIN r.data THEN Undefined
    \* popularity_red_pocket[0] of an empty list is undefined: the destructuring
    \* raises, and the empty catch turns that into undefined
    ELSE IF r.data.popularity_red_pocket = <<>> THEN Undefined
    ELSE IF r.data.popularity_red_pocket[1].lot_status = 2 THEN Undefined
    ELSE [lot_id |-> r.data.popularity_red_pocket[1].lot_id]

(* doRedPacket (lines 280-298): the accumulator after a join that ended in outcome *)

AfterRedPacket(acc, redPacket, outcome) ==
    IF outcome = "ok" THEN Append(acc, NumEntry(redPacket.uid)) ELSE acc

-----------------------------------------------------------------------------
(* The loops of liveLotteryService / liveRedPackService and of doLotteryArea /   *)
(* doRedPackArea: where the run goes once a page is done                        *)

AtReturnSuspended == [pc |-> "suspended", ai |-> 0, aj |-> 0, page |-> 0]
AtReturn == [pc |-> "return", ai |-> 0, aj |-> 0, page |-> 0]

\* first sub-category at or after areaList[i][j], in for-of order
RECURSIVE FirstArea(_, _, _, _)
FirstArea(al, i, j, num) ==
    IF i > Len(al) THEN AtReturn
    ELSE IF j > Len(al[i]) THEN FirstArea(al, i + 1, 1, num)
    ELSE IF num < 1 THEN FirstArea(al, i, j + 1, num)
    ELSE [pc |-> "fetch", ai |-> i, aj |-> j, page |-> 1]

NextPageStopsEarly(al, i, j, p, num) ==
    IF p + 1 < num THEN [pc |-> "fetch", ai |-> i, aj |-> j, page |-> p + 1]
    ELSE FirstArea(al, i, j + 1, num)

\* after page p of areaList[i][j]: page++ while page <= num, then the next area
NextPage(al, i, j, p, num) ==
    IF p + 1 <= num THEN [pc |-> "fetch", ai |-> i, aj |-> j, page |-> p + 1]
    ELSE FirstArea(al, i, j + 1, num)

GoTo(pos) == pc' = pos.pc /\ ai' = pos.ai /\ aj' = pos.aj /\ page' = pos.page

AfterCheckJoinsFirst(rest, checked) ==
    IF checked # <<>> THEN [pc |-> "join", ai |-> ai, aj |-> aj, page |-> page]
    ELSE IF rest # <<>> THEN [pc |-> "check", ai |-> ai, aj |-> aj, page |-> page]
    ELSE NextPage(areaList, ai, aj, page, TaskConfig.LOTTERY_PAGE_NUM)

\* after a room of the page is checked: the next room, then the joins, then the next page
AfterCheck(rest, checked) ==
    IF rest # <<>> THEN [pc |-> "check", ai |-> ai, aj |-> aj, page |-> page]
    ELSE IF checked # <<>> THEN [pc |-> "join", ai |-> ai, aj |-> aj, page |-> page]
    ELSE NextPage(areaList, ai, aj, page, TaskConfig.LOTTERY_PAGE_NUM)

\* for (const room of rooms) { await doLottery(room); ... } (lines 199-202, 309-312):
\* the rooms still to join once the join of the first one has ended, however it ended
RestToJoinRetry(rooms, outcome) == IF outcome = "ok" THEN Tail(rooms) ELSE rooms
RestToJoin(rooms, outcome) == Tail(rooms)

\* after a join: the next room to join, then the next page
AfterJoin(rest) ==
    IF rest # <<>> THEN [pc |-> "join", ai |-> ai, aj |-> aj, page |-> page]
    ELSE NextPage(areaList, ai, aj, page, TaskConfig.LOTTERY_PAGE_NUM)

NoCalls == [getLiveRoom |-> 0, join |-> 0]
NoCall == [op |-> "none", out |-> "none"]
Called(op) == calls' = [calls EXCEPT ![op] = @ + 1]
Outcome(r) == IF r = Thrown THEN "throw" ELSE IF r.code # 0 THEN "fail" ELSE "ok"
Answered(op, out) == last' = [op |-> op, out |-> out] /\ clean' = (clean /\ out = "ok")

\* if (data) { checkedRoomList.push(...); await apiDelay(100); } (lines 100-107), and
\* if (lotId) { ...; await apiDelay(100); } (lines 263-271): the delays awaited
DelayAfterCheckAlways(found) == <<100>>
DelayAfterCheck(found) == IF found THEN <<100>> ELSE <<>>

\* await apiDelay(300) after doLottery (line 201), await apiDelay(200) after
\* doRedPacket (line 311)
DelayAfterJoinNone(type) == <<>>
DelayAfterJoin(type) == IF type = "lottery" THEN <<300>> ELSE <<200>>

\* history: data.list of a page fetch, when the call returned one
DataList(r) == IF r = Thrown \/ r.data = Undefined THEN Undefined ELSE [list |-> r.data.list]

\* getLiveRoom(parentId, areaId, page) (line 78)
Fetch(area, p) == [parentId |-> area.parentId, areaId |-> area.areaId, page |-> p]

\* history of the joins that returned a non-success code or raised
Failed(set, id, outcome) ==
    IF outcome = "ok" THEN set ELSE set \cup {[id |-> id, at |-> calls.getLiveRoom]}

config == <<TaskConfig, TaskModule, remote>>

\* the handler has not been invoked
FcIdle ==
    [pc |-> "idle", event |-> "", calls |-> <<>>, runTasks |-> "not called",
     task |-> "not run", dailyMain |-> "not called", raised |-> "none",
     init |-> "none"]

\* no other invocation is running
NoOther == [type |-> "none", joins |-> 0]

-----------------------------------------------------------------------------
(* State after the module is loaded *)

Loaded ==
    /\ newFollowUp = <<>>
    /\ pc = "idle"
    /\ lotType = "none"
    /\ areaList = <<>>
    /\ ai = 0 /\ aj = 0 /\ page = 0
    /\ roomList = <<>>
    /\ resp = Undefined
    /\ checkedRoomList = <<>>
    /\ ret = Undefined
    /\ calls = NoCalls
    /\ nAccepted = 0
    /\ last = NoCall
    /\ clean = TRUE
    /\ listed = 0
    /\ joined = {}
    /\ fc = FcIdle
    /\ other = NoOther
    /\ own = <<>>
    /\ slept = <<>>
    /\ arg = Undefined
    /\ fetches = <<>>
    /\ fetched = Undefined
    /\ failed = {}

(* liveLotteryService / liveRedPackService, first statement (lines 210, 320) *)
\* a caller that awaits each run starts the next one only when the last one has ended
Start(type) ==
    /\ pc \in {"idle", "done", "raised"}
    /\ lotType' = type
    /\ newFollowUp' = <<>>
    /\ pc' = "area"
    /\ areaList' = <<>> /\ ai' = 0 /\ aj' = 0 /\ page' = 0
    /\ roomList' = <<>> /\ resp' = Undefined /\ checkedRoomList' = <<>>
    /\ ret' = Undefined
    /\ calls' = NoCalls /\ nAccepted' = 0 /\ last' = NoCall /\ clean' = TRUE
    /\ listed' = 0 /\ joined' = {}
    /\ own' = <<>>
    /\ slept' = <<>>
    /\ arg' = Undefined
    /\ fetches' = <<>>
    /\ fetched' = Undefined
    /\ failed' = {}
    /\ UNCHANGED <<config, other, fc>>

(* await getLiveArea() (lines 212, 322) *)
GetLiveArea ==
    /\ pc = "area"
    /\ \E r \in AreaResponses(remote.areas) :
        /\ Answered("getArea", Outcome(r))
        /\ IF LiveArea(r) = Thrown
           THEN /\ pc' = "raised"
                /\ ret' = [k |-> "throw", from |-> "getLiveArea"]
                /\ UNCHANGED <<areaList, ai, aj, page>>
           ELSE /\ areaList' = LiveArea(r).v
                /\ GoTo(FirstArea(LiveArea(r).v, 1, 1, TaskConfig.LOTTERY_PAGE_NUM))
                /\ UNCHANGED ret
    /\ fetched' = Undefined
    /\ slept' = <<>>
    /\ UNCHANGED <<config, fc, other, own, arg, fetches, failed, newFollowUp, lotType,
                   roomList, resp, checkedRoomList, calls, nAccepted, listed, joined>>

(* await getLotteryRoomList(areaId, parentId, page, lotType) (lines 96, 259) *)
GetLotteryRoomList ==
    /\ pc = "fetch"
    /\ \E r \in RoomResponses(remote.listings - listed) :
        /\ Called("getLiveRoom")
        /\ Answered("getLiveRoom", Outcome(r))
        /\ fetched' = DataList(r)
        /\ IF LotteryRoomList(r, lotType) = Thrown
           THEN /\ pc' = "raised"
                /\ ret' = [k |-> "throw", from |-> "getLotteryRoomList"]
                /\ UNCHANGED <<roomList, listed, ai, aj, page>>
           ELSE /\ roomList' = LotteryRoomList(r, lotType).v
                /\ listed' = listed + Len(LotteryRoomList(r, lotType).v)
                /\ GoTo(AfterCheck(LotteryRoomList(r, lotType).v, <<>>))
                /\ UNCHANGED ret
    /\ checkedRoomList' = <<>>
    /\ fetches' = Append(fetches, Fetch(areaList[ai][aj], page))
    /\ arg' = Undefined
    /\ slept' = <<>>
    /\ UNCHANGED <<config, fc, other, own, failed, newFollowUp, lotType, areaList, resp,
                   nAccepted, joined>>

(* checkLotteryRoom, the blacklist test (lines 113-116) *)
SkipBlacklisted ==
    /\ pc = "check" /\ lotType = "lottery"
    /\ IsBlacklisted(Head(roomList), TaskConfig)
    /\ roomList' = Tail(roomList)
    /\ GoTo(AfterCheck(Tail(roomList), checkedRoomList))
    /\ fetched' = Undefined
    /\ UNCHANGED <<config, fc, other, own, slept, arg, fetches, failed, newFollowUp,
                   lotType, areaList, resp, checkedRoomList, ret, calls, nAccepted, last,
                   clean, listed, joined>>

(* checkLotteryRoom, await checkLottery(room.roomid) (line 119) *)
CheckLottery ==
    /\ pc = "check" /\ lotType = "lottery"
    /\ ~IsBlacklisted(Head(roomList), TaskConfig)
    /\ \E r \in CheckResponses(Head(roomList).roomid, remote.draws) :
        /\ resp' = r
        /\ Answered("checkLottery", Outcome(r))
    /\ pc' = "filter"
    /\ fetched' = Undefined
    /\ arg' = [room |-> Head(roomList).roomid]
    /\ slept' = <<>>
    /\ UNCHANGED <<config, fc, other, own, fetches, failed, newFollowUp, lotType,
                   areaList, ai, aj, page, roomList, checkedRoomList, ret, calls,
                   nAccepted, listed, joined>>

\* { ...data, uid: room.uid, uname: room.uname } (lines 101-105), without award_name
\* and uname, which doLottery only logs, and require_value, which it does not read
CheckedLottery(data, room) ==
    [id |-> data.id, gift_id |-> data.gift_id, gift_num |-> data.gift_num,
     status |-> data.status, gift_price |-> data.gift_price,
     require_type |-> data.require_type, require_text |-> data.require_text,
     uid |-> room.uid]

(* checkLotteryRoom after the await (lines 120-149), and the loop body of *)
(* checkLotteryRoomList (lines 100-107)                                    *)
CheckLotteryRoom ==
    /\ pc = "filter" /\ lotType = "lottery"
    /\ LET verdict == CheckVerdict(resp, TaskConfig, TaskModule)
           checked == Append(checkedRoomList, CheckedLottery(resp.data, Head(roomList)))
       IN  CASE verdict = "throw" ->
                    /\ pc' = "raised"
                    /\ ret' = [k |-> "throw", from |-> "checkLotteryRoom"]
                    /\ UNCHANGED <<roomList, checkedRoomList, nAccepted, ai, aj, page,
                                   slept>>
             [] verdict = "accept" ->
                    /\ checkedRoomList' = checked
                    /\ slept' = slept \o DelayAfterCheck(TRUE)
                    /\ nAccepted' = nAccepted + 1
                    /\ roomList' = Tail(roomList)
                    /\ GoTo(AfterCheck(Tail(roomList), checked))
                    /\ UNCHANGED ret
             [] verdict = "skip" ->
                    /\ roomList' = Tail(roomList)
                    /\ GoTo(AfterCheck(Tail(roomList), checkedRoomList))
                    /\ slept' = slept \o DelayAfterCheck(FALSE)
                    /\ UNCHANGED <<checkedRoomList, nAccepted, ret>>
    /\ resp' = Undefined
    /\ fetched' = Undefined
    /\ UNCHANGED <<config, fc, other, own, arg, fetches, failed, newFollowUp, lotType,
                   areaList, calls, last, clean, listed, joined>>

(* await doLottery(room); await apiDelay(300) (lines 200-201) *)
DoLottery ==
    /\ pc = "join" /\ lotType = "lottery"
    /\ \E outcome \in JoinOutcomes :
        /\ newFollowUp' = AfterLottery(newFollowUp, Head(checkedRoomList), outcome)
        /\ own' = AfterLottery(own, Head(checkedRoomList), outcome)
        /\ Answered("joinLottery", outcome)
        /\ failed' = Failed(failed, Head(checkedRoomList).id, outcome)
        /\ checkedRoomList' = RestToJoin(checkedRoomList, outcome)
        /\ GoTo(AfterJoin(RestToJoin(checkedRoomList, outcome)))
    /\ Called("join")
    /\ joined' = joined \cup {Head(checkedRoomList).id}
    /\ fetched' = Undefined
    /\ arg' = [room |-> Head(checkedRoomList).id]
    /\ slept' = DelayAfterJoin(lotType)
    /\ UNCHANGED <<config, fc, other, fetches, lotType, areaList, roomList, resp, ret,
                   nAccepted, listed>>

(* getRedPacketId, await checkRedPacket(roomId) (line 229) *)
CheckRedPacket ==
    /\ pc = "check" /\ lotType = "redPack"
    /\ \E r \in PacketResponses(Head(roomList).roomid) :
        /\ resp' = r
        /\ Answered("checkRedPacket", Outcome(r))
    /\ pc' = "filter"
    /\ fetched' = Undefined
    /\ arg' = [room |-> Head(roomList).roomid]
    /\ slept' = <<>>
    /\ UNCHANGED <<config, fc, other, own, fetches, failed, newFollowUp, lotType,
                   areaList, ai, aj, page, roomList, checkedRoomList, ret, calls,
                   nAccepted, listed, joined>>

\* the RedPacket pushed at lines 264-269
CheckedRedPacket(lotId, room) ==
    [uid |-> room.uid, lot_id |-> lotId.lot_id, room_id |-> room.roomid]

(* getRedPacketId after the await (lines 230-242), and the loop body of *)
(* getRedPacketRoom (lines 263-271)                                      *)
GetRedPacketId ==
    /\ pc = "filter" /\ lotType = "redPack"
    /\ LET lotId == RedPacketId(resp)
           checked == Append(checkedRoomList, CheckedRedPacket(lotId, Head(roomList)))
       IN  IF lotId # Undefined
           THEN /\ checkedRoomList' = checked
                /\ nAccepted' = nAccepted + 1
                /\ slept' = slept \o DelayAfterCheck(TRUE)
                /\ GoTo(AfterCheck(Tail(roomList), checked))
           ELSE /\ GoTo(AfterCheck(Tail(roomList), checkedRoomList))
                /\ slept' = slept \o DelayAfterCheck(FALSE)
                /\ UNCHANGED <<checkedRoomList, nAccepted>>
    /\ roomList' = Tail(roomList)
    /\ resp' = Undefined
    /\ fetched' = Undefined
    /\ UNCHANGED <<config, fc, other, own, arg, fetches, failed, newFollowUp, lotType,
                   areaList, ret, calls, last, clean, listed, joined>>

(* await doRedPacket(room); await apiDelay(200) (lines 310-311) *)
DoRedPacket ==
    /\ pc = "join" /\ lotType = "redPack"
    /\ \E outcome \in JoinOutcomes :
        /\ newFollowUp' = AfterRedPacket(newFollowUp, Head(checkedRoomList), outcome)
        /\ own' = AfterRedPacket(own, Head(checkedRoomList), outcome)
        /\ Answered("joinRedPacket", outcome)
        /\ failed' = Failed(failed, Head(checkedRoomList).lot_id, outcome)
        /\ checkedRoomList' = RestToJoin(checkedRoomList, outcome)
        /\ GoTo(AfterJoin(RestToJoin(checkedRoomList, outcome)))
    /\ Called("join")
    /\ joined' = joined \cup {Head(checkedRoomList).room_id}
    /\ fetched' = Undefined
    /\ arg' = [room |-> Head(checkedRoomList).room_id]
    /\ slept' = DelayAfterJoin(lotType)
    /\ UNCHANGED <<config, fc, other, fetches, lotType, areaList, roomList, resp, ret,
                   nAccepted, listed>>

(* return newFollowUp (lines 220, 330) *)
Return ==
    /\ pc = "return"
    /\ ret' = [k |-> "value", v |-> newFollowUp]
    /\ pc' = "done"
    /\ fetched' = Undefined
    /\ UNCHANGED <<config, fc, other, own, slept, arg, fetches, failed, newFollowUp,
                   lotType, areaList, ai, aj, page, roomList, resp, checkedRoomList,
                   calls, nAccepted, last, clean, listed, joined>>

liveLotteryService == Start("lottery")
liveRedPackService == Start("redPack")

Next ==
    \/ liveLotteryService
    \/ liveRedPackService
    \/ GetLiveArea
    \/ GetLotteryRoomList
    \/ SkipBlacklisted
    \/ CheckLottery
    \/ CheckLotteryRoom
    \/ DoLottery
    \/ CheckRedPacket
    \/ GetRedPacketId
    \/ DoRedPacket
    \/ Return

\* two configurations, a remote service that lists up to MaxListed rooms
Init ==
    /\ Loaded
    /\ \/ /\ TaskConfig = [LOTTERY_UP_BLACKLIST |-> <<>>, LOTTERY_EXCLUDE |-> <<Test>>,
                            LOTTERY_INCLUDE |-> <<TestPrize>>, LOTTERY_PAGE_NUM |-> PageNum]
          /\ TaskModule = [userLevel |-> 10]
       \/ /\ TaskConfig = [LOTTERY_UP_BLACKLIST |-> <<"u1">>, LOTTERY_EXCLUDE |-> <<>>,
                            LOTTERY_INCLUDE |-> <<>>, LOTTERY_PAGE_NUM |-> PageNum]
          /\ TaskModule = [userLevel |-> 9]
    /\ remote = [listings |-> MaxListed, draws |-> "core", areas |-> MaxAreas]

Spec == Init /\ [][Next]_vars

\* every configuration, a remote service that serves every draw
InitAllDraws ==
    /\ Loaded
    /\ TaskConfig \in TaskConfigs
    /\ TaskModule \in {[userLevel |-> l] : l \in UserLevels}
    /\ remote = [listings |-> MaxListedAllDraws, draws |-> "all", areas |-> MaxAreas]

SpecAllDraws == InitAllDraws /\ [][Next]_vars

\* one configuration, a remote service that lists up to MaxListedOrder rooms in up to
\* MaxAreasOrder sub-categories
InitOrder ==
    /\ Loaded
    /\ TaskConfig = [LOTTERY_UP_BLACKLIST |-> <<"u1">>, LOTTERY_EXCLUDE |-> <<>>,
                     LOTTERY_INCLUDE |-> <<>>, LOTTERY_PAGE_NUM |-> PageNum]
    /\ TaskModule = [userLevel |-> 9]
    /\ remote = [listings |-> MaxListedOrder, draws |-> "core", areas |-> MaxAreasOrder]

SpecOrder == InitOrder /\ [][Next]_vars

-----------------------------------------------------------------------------
(* A run in which every remote call and every delay completes: the statement after *)
(* an await is eventually run.  Nothing obliges the caller to start a run.         *)

Resume ==
    \/ GetLiveArea
    \/ GetLotteryRoomList
    \/ SkipBlacklisted
    \/ CheckLottery
    \/ CheckLotteryRoom
    \/ DoLottery
    \/ CheckRedPacket
    \/ GetRedPacketId
    \/ DoRedPacket
    \/ Return

\* the two configurations of Init, a remote service that lists up to MaxListedFair rooms
InitFair ==
    /\ Loaded
    /\ \/ /\ TaskConfig = [LOTTERY_UP_BLACKLIST |-> <<>>, LOTTERY_EXCLUDE |-> <<Test>>,
                            LOTTERY_INCLUDE |-> <<TestPrize>>, LOTTERY_PAGE_NUM |-> PageNum]
          /\ TaskModule = [userLevel |-> 10]
       \/ /\ TaskConfig = [LOTTERY_UP_BLACKLIST |-> <<"u1">>, LOTTERY_EXCLUDE |-> <<>>,
                            LOTTERY_INCLUDE |-> <<>>, LOTTERY_PAGE_NUM |-> PageNum]
          /\ TaskModule = [userLevel |-> 9]
    /\ remote = [listings |-> MaxListedFair, draws |-> "core", areas |-> MaxAreas]

SpecFair == InitFair /\ [][Next]_vars /\ WF_vars(Resume)

-----------------------------------------------------------------------------
(* index.fc.ts: handler (lines 18-40), runTasks (lines 42-52), dailyMain (lines   *)
(* 12-16).  A step runs the code from one await to the next.  fc.calls is the list *)
(* of the invocations of callback, fc.raised the statement whose error the catch   *)
(* of line 37 received, fc.init the event dailyHandler was last initialised with.  *)
(* callback is the platform's function: it returns.                                *)

\* the service and the variables of its runs, which the handler's code does not touch
service == <<config, newFollowUp, pc, lotType, areaList, ai, aj, page, roomList, resp,
             checkedRoomList, ret, calls, nAccepted, last, clean, listed, joined, failed,
             fetched, fetches, arg, slept, own, other>>

\* JSON5.parse on the texts the handler is invoked with: the value, or "throw"
JSON5Parse(text) ==
    CASE text = "{}" -> [k |-> "value", v |-> [other |-> TRUE]]
      [] text = "null" -> [k |-> "value", v |-> Null]
      [] text = "{payload:''}" -> [k |-> "value", v |-> [payload |-> ""]]
      [] text = "{payload:'}'}" -> [k |-> "value", v |-> [payload |-> "}"]]
      [] text = "{payload:'null'}" -> [k |-> "value", v |-> [payload |-> "null"]]
      [] text = "{payload:'{}'}" -> [k |-> "value", v |-> [payload |-> "{}"]]
      [] text = "{payload:'{task:\"\"}'}" -> [k |-> "value", v |-> [payload |-> "{task:''}"]]
      [] text = "{payload:'{task:\"a\"}'}" -> [k |-> "value", v |-> [payload |-> "{task:'a'}"]]
      [] text = "{payload:'{task:\"b\"}'}" -> [k |-> "value", v |-> [payload |-> "{task:'b'}"]]
      [] text = "{task:''}" -> [k |-> "value", v |-> [task |-> ""]]
      [] text = "{task:'a'}" -> [k |-> "value", v |-> [task |-> "a"]]
      [] text = "{task:'b'}" -> [k |-> "value", v |-> [task |-> "b"]]
      [] OTHER -> Thrown

\* event.toString() of the events the handler is invoked with
Events ==
    {"}", "null", "{}", "{payload:''}", "{payload:'}'}", "{payload:'null'}",
     "{payload:'{}'}", "{payload:'{task:\"\"}'}", "{payload:'{task:\"a\"}'}",
     "{payload:'{task:\"b\"}'}"}

\* what dailyHandler.run() resolves to
Messages == {"msg", "", "undefined"}
Awaited == {"ok", "throw"}

\* a property read of an object that may lack it; "" stands for undefined, which is
\* as falsy as the empty string
Prop(obj, name) == IF name \in DOMAIN obj THEN obj[name] ELSE ""
Truthy(str) == str # ""

\* callback(error, data)
Callback(f, error, data) ==
    [f EXCEPT !.pc = "done", !.calls = Append(@, [error |-> error, data |-> data])]
\* catch (error) { callback(error); } (lines 37-39)
Catch(f, from) == Callback([f EXCEPT !.raised = from], from, "undefined")

\* const message = await dailyMain(), up to the await of line 14
CallDailyMain(f) == [f EXCEPT !.pc = "daily.import", !.dailyMain = "running"]

\* lines 31-35, once isReturn is known
AfterRunTasksNoReturn(f, isReturn) ==
    IF isReturn
    THEN CallDailyMain([f EXCEPT !.calls = Append(@, [error |-> "null", data |-> "success"])])
    ELSE CallDailyMain(f)
AfterRunTasks(f, isReturn) ==
    IF isReturn THEN Callback(f, "null", "success") ELSE CallDailyMain(f)

\* runTasks returns: true from line 48, false from line 51; handler takes it at line 29
RunTasksReturnsTrue(f, completed) ==
    AfterRunTasks([f EXCEPT !.runTasks = "true"], TRUE)
RunTasksReturns(f, completed) ==
    AfterRunTasks([f EXCEPT !.runTasks = IF completed THEN "true" ELSE "false"], completed)

(* handler, up to the await of line 21 *)
Handler ==
    /\ fc.pc \in {"idle", "done"}
    /\ \E event \in Events :
        fc' = IF JSON5Parse(event) = Thrown
              THEN Catch([FcIdle EXCEPT !.event = event, !.init = fc.init], "JSON5.parse")
              ELSE [FcIdle EXCEPT !.event = event, !.init = fc.init, !.pc = "import"]
    /\ UNCHANGED service

(* handler, from the import of line 21 to the next await: of runTasks (line 44) or *)
(* of dailyMain (line 14)                                                          *)
DailyHandlerInit ==
    /\ fc.pc = "import"
    /\ \E imported \in Awaited, init \in Awaited :
        LET eventJson == JSON5Parse(fc.event).v
            \* dailyHandler.init({ event: eventJson, context, slsType: 'fc' }) keeps the event
            inited == [fc EXCEPT !.init = fc.event]
        IN  fc' = IF imported = "throw" THEN Catch(fc, "import")
                  ELSE IF init = "throw" THEN Catch(fc, "dailyHandler.init")
                  ELSE IF eventJson = Null THEN Catch(inited, "eventJson.payload")
                  ELSE IF Truthy(Prop(eventJson, "payload"))
                       THEN [inited EXCEPT !.pc = "task.import", !.runTasks = "running"]
                  ELSE AfterRunTasks(inited, FALSE)
    /\ UNCHANGED service

(* runTasks, from the import of line 44 to the await of line 47 or to its return *)
RunTasks ==
    /\ fc.pc = "task.import"
    /\ \E imported \in Awaited :
        LET payloadJson == JSON5Parse(JSON5Parse(fc.event).v.payload)
        IN  fc' = IF imported = "throw" THEN RunTasksReturns(fc, FALSE)
                  ELSE IF payloadJson = Thrown THEN RunTasksReturns(fc, FALSE)
                  ELSE IF payloadJson.v = Null THEN RunTasksReturns(fc, FALSE)
                  ELSE IF Truthy(Prop(payloadJson.v, "task"))
                       THEN [fc EXCEPT !.pc = "task.run", !.task = "running"]
                  ELSE RunTasksReturns(fc, FALSE)
    /\ UNCHANGED service

(* await runInputBiliTask(payloadJson.task) (line 47) *)
RunInputBiliTask ==
    /\ fc.pc = "task.run"
    /\ \E ended \in Awaited :
        fc' = IF ended = "ok" THEN RunTasksReturns([fc EXCEPT !.task = "completed"], TRUE)
              ELSE RunTasksReturns([fc EXCEPT !.task = "failed"], FALSE)
    /\ UNCHANGED service

(* dailyMain, the import of line 14: the module was loaded at line 21 *)
DailyImport ==
    /\ fc.pc = "daily.import"
    /\ fc' = [fc EXCEPT !.pc = "daily.run"]
    /\ UNCHANGED service

(* return await dailyHandler.run() (line 15), then lines 35-36 or the catch *)
DailyMain ==
    /\ fc.pc = "daily.run"
    /\ \/ \E message \in Messages :
            fc' = Callback([fc EXCEPT !.dailyMain = "returned"], "null", message)
       \/ fc' = Catch([fc EXCEPT !.dailyMain = "raised"], "dailyMain")
    /\ UNCHANGED service

NextHandler ==
    \/ Handler
    \/ DailyHandlerInit
    \/ RunTasks
    \/ RunInputBiliTask
    \/ DailyImport
    \/ DailyMain

\* the module is loaded and the handler has not been invoked
InitHandler ==
    /\ Loaded
    /\ TaskConfig = [LOTTERY_UP_BLACKLIST |-> <<>>, LOTTERY_EXCLUDE |-> <<>>,
                     LOTTERY_INCLUDE |-> <<>>, LOTTERY_PAGE_NUM |-> PageNum]
    /\ TaskModule = [userLevel |-> 10]
    /\ remote = [listings |-> 0, draws |-> "core", areas |-> 0]

SpecHandler == InitHandler /\ [][NextHandler]_vars

-----------------------------------------------------------------------------
(* A second invocation of liveLotteryService / liveRedPackService that starts while *)
(* the first one is suspended at an await.  It runs the same code on the same      *)
(* module-level newFollowUp; only its statements that write newFollowUp are steps, *)
(* its remote calls and delays leave the state of the first invocation alone.      *)

\* newFollowUp = [] (lines 210, 320), before the first invocation has returned
OtherStart(type) ==
    /\ pc \notin {"idle", "done", "raised"}
    /\ other = NoOther
    /\ other' = [type |-> type, joins |-> 0]
    /\ newFollowUp' = <<>>
    /\ UNCHANGED <<config, pc, lotType, areaList, ai, aj, page, roomList, resp,
                   checkedRoomList, ret, calls, nAccepted, last, clean, listed, joined,
                   failed, fetched, fetches, arg, slept, own, fc>>

\* a successful join of the other invocation: lines 180-184 for a follow draw of the
\* room, line 293 for a red packet of the room
OtherJoin ==
    /\ other # NoOther /\ other.joins < MaxOtherJoins
    /\ other' = [other EXCEPT !.joins = @ + 1]
    /\ \E r \in RoomIds :
        newFollowUp' =
            IF other.type = "lottery"
            THEN AfterLottery(newFollowUp,
                              CheckedLottery(Draw(r, <<"jiang", "pin">>, StatusEnabled, 0,
                                                  RequireFollow, RequireTextA),
                                             [uid |-> UidOf(r)]),
                              "ok")
            ELSE AfterRedPacket(newFollowUp, [uid |-> UidOf(r)], "ok")
    /\ UNCHANGED <<config, pc, lotType, areaList, ai, aj, page, roomList, resp,
                   checkedRoomList, ret, calls, nAccepted, last, clean, listed, joined,
                   failed, fetched, fetches, arg, slept, own, fc>>

\* return newFollowUp (lines 220, 330) of the other invocation
OtherReturn ==
    /\ other # NoOther
    /\ other' = NoOther
    /\ UNCHANGED <<config, newFollowUp, pc, lotType, areaList, ai, aj, page, roomList,
                   resp, checkedRoomList, ret, calls, nAccepted, last, clean, listed,
                   joined, failed, fetched, fetches, arg, slept, own, fc>>

NextOverlap ==
    \/ Next
    \/ OtherStart("lottery")
    \/ OtherStart("redPack")
    \/ OtherJoin
    \/ OtherReturn

\* one configuration, a remote service that lists up to MaxListedOverlap rooms
InitOverlap ==
    /\ Loaded
    /\ TaskConfig = [LOTTERY_UP_BLACKLIST |-> <<"u1">>, LOTTERY_EXCLUDE |-> <<>>,
                     LOTTERY_INCLUDE |-> <<>>, LOTTERY_PAGE_NUM |-> PageNum]
    /\ TaskModule = [userLevel |-> 10]
    /\ remote = [listings |-> MaxListedOverlap, draws |-> "core", areas |-> MaxAreas]

SpecOverlap == InitOverlap /\ [][NextOverlap]_vars

-----------------------------------------------------------------------------
(* Claims *)

NoDuplicates(s) == \A i, j \in 1..Len(s) : s[i] = s[j] => i = j
Blacklist == TaskConfig.LOTTERY_UP_BLACKLIST
InLottery == lotType = "lottery"
InRedPack == lotType = "redPack"
\* the step that answers a join request
JoinStep == pc = "join" /\ calls'.join = calls.join + 1
\* the draw details a checkLottery request was answered with, when it was
HasDetails == pc = "filter" /\ InLottery /\ resp # Thrown /\ resp.code = 0 /\ resp.data # Null
Named == HasDetails /\ "award_name" \in DOMAIN resp.data
Accepted == checkedRoomList' = Append(checkedRoomList, CheckedLottery(resp.data, Head(roomList)))
Rejected == checkedRoomList' = checkedRoomList /\ nAccepted' = nAccepted
MatchesSome(patterns) == \E i \in 1..Len(patterns) : Match(resp.data.award_name, patterns[i])

\* C1: the list an entry point returns holds no streamer identifier more than once
C1_ReturnsNoDuplicate == pc = "done" => NoDuplicates(ret.v)

\* C2: in the lottery pipeline no fetch-draw-details request and no join request is
\* issued for a room whose streamer uid is on the blacklist, whatever the draw is
C2_BlacklistedNeverRequested ==
    InLottery =>
        /\ pc = "filter" => ~Includes(Blacklist, Head(roomList).uid)
        /\ \A i \in 1..Len(checkedRoomList) : ~Includes(Blacklist, checkedRoomList[i].uid)
        /\ \A r \in joined : ~Includes(Blacklist, UidOf(r))

\* a blacklisted room was listed and passed over: the page is done, and the last
\* remote call is still the page fetch
C2_Witness ==
    /\ InLottery /\ Blacklist # <<>> /\ listed = 1 /\ pc = "fetch"
    /\ last.op = "getLiveRoom" /\ calls.join = 0

\* C3: in the lottery pipeline no join request is submitted for a draw whose details
\* report a gift price above 0, even when every other filter would pass
C3_PaidNeverJoined ==
    [][/\ (HasDetails /\ resp.data.gift_price > 0) => Rejected
       /\ (InLottery /\ JoinStep) => Head(checkedRoomList).gift_price = 0]_vars

\* a paid draw that passes every other filter has been served
C3_Witness ==
    /\ Named /\ resp.data.gift_price > 0 /\ resp.data.status = StatusEnabled
    /\ ~MatchesSome(TaskConfig.LOTTERY_EXCLUDE)
    /\ resp.data.require_type = RequireFollow

\* C4: for an enabled free draw of requirement type none or follow: an award name on
\* the exclude list and on the include list is accepted, one on the exclude list only is
\* rejected and the room is not joined, one not on the exclude list is accepted
C4_IncludeOverridesExclude ==
    [][(/\ Named /\ resp.data.status = StatusEnabled /\ resp.data.gift_price = 0
        /\ resp.data.require_type \in {RequireNone, RequireFollow})
       => /\ (MatchesSome(TaskConfig.LOTTERY_EXCLUDE) /\ MatchesSome(TaskConfig.LOTTERY_INCLUDE))
                => Accepted
          /\ (MatchesSome(TaskConfig.LOTTERY_EXCLUDE) /\ ~MatchesSome(TaskConfig.LOTTERY_INCLUDE))
                => Rejected
          /\ ~MatchesSome(TaskConfig.LOTTERY_EXCLUDE) => Accepted
          /\ (/\ TaskConfig.LOTTERY_EXCLUDE = <<Test>>
              /\ TaskConfig.LOTTERY_INCLUDE = <<TestPrize>>)
                => /\ resp.data.award_name = <<"ce", "shi", "jiang", "pin">> => Accepted
                   /\ resp.data.award_name = <<"ce", "shi">> => Rejected]_vars

\* an award name on both lists has been served by an enabled free draw
C4_Witness ==
    /\ Named /\ resp.data.status = StatusEnabled /\ resp.data.gift_price = 0
    /\ resp.data.require_type = RequireNone
    /\ MatchesSome(TaskConfig.LOTTERY_EXCLUDE) /\ MatchesSome(TaskConfig.LOTTERY_INCLUDE)

\* the award name passes the pattern test, the draw is enabled and free
PassesFirstChecks ==
    /\ Named
    /\ MatchesSome(TaskConfig.LOTTERY_INCLUDE) \/ ~MatchesSome(TaskConfig.LOTTERY_EXCLUDE)
    /\ resp.data.status = StatusEnabled /\ resp.data.gift_price = 0

\* C5: a draw that passes the pattern, status and price checks and whose requirement
\* type is neither none nor follow is accepted exactly when the type is level and the
\* user level is at least the required value (required 10: yes at 10 and 15, no at 9)
C5_LevelRequirement ==
    [][(PassesFirstChecks /\ resp.data.require_type \notin {RequireNone, RequireFollow})
       => /\ Accepted <=> (/\ resp.data.require_type = RequireLevel
                           /\ TaskModule.userLevel >= resp.data.require_value)
          /\ ~Accepted => Rejected
          /\ (resp.data.require_type = RequireLevel /\ resp.data.require_value = 10)
                => /\ TaskModule.userLevel \in {10, 15} => Accepted
                   /\ TaskModule.userLevel = 9 => Rejected]_vars

\* a level-10 draw that passes the first checks has been served to a user of level 10
C5_Witness ==
    /\ PassesFirstChecks /\ resp.data.require_type = RequireLevel
    /\ resp.data.require_value = 10 /\ TaskModule.userLevel = 10

\* appending each item that is not yet in the list
RECURSIVE AddNew(_, _)
AddNew(acc, items) ==
    IF items = <<>> THEN acc
    ELSE AddNew(IF Head(items) \in Range(acc) THEN acc ELSE acc \o <<Head(items)>>,
                Tail(items))

\* the names after the first one in each requirement text the remote service serves
NamesAfterFirst(text) ==
    CASE text = RequireTextABC -> <<StrEntry(<<"B">>), StrEntry(<<"C">>)>>
      [] text = RequireTextA -> <<>>
      [] text = RequireTextNoMarker -> <<StrEntry(<<"C">>), StrEntry(<<"C">>)>>

JoinedFollow ==
    /\ InLottery /\ JoinStep /\ last'.out = "ok"
    /\ Head(checkedRoomList).require_type = RequireFollow

\* C6: a successful lottery join of a follow draw adds the room's streamer uid and
\* then, in text order, each name of the requirement text after the first one, each
\* only if absent; "guan zhu zhu bo A + B + C" on an empty list gives [uid, "B", "C"]
C6_FollowRecordsUidAndExtraNames ==
    [][JoinedFollow =>
        LET lottery == Head(checkedRoomList)
        IN  /\ newFollowUp' =
                 AddNew(newFollowUp,
                        <<NumEntry(lottery.uid)>> \o NamesAfterFirst(lottery.require_text))
            /\ (newFollowUp = <<>> /\ lottery.require_text = RequireTextABC)
                  => newFollowUp' = <<NumEntry(lottery.uid), StrEntry(<<"B">>),
                                      StrEntry(<<"C">>)>>
            /\ StrEntry(<<"A">>) \notin Range(newFollowUp')]_vars

\* the join of such a draw has recorded [uid, "B", "C"]
C6_Witness ==
    /\ InLottery /\ last = [op |-> "joinLottery", out |-> "ok"]
    /\ newFollowUp = <<NumEntry("u2"), StrEntry(<<"B">>), StrEntry(<<"C">>)>>

\* the red packets a checkRedPacket request was answered with, when it was
PacketsServed ==
    /\ pc = "filter" /\ InRedPack /\ resp # Thrown /\ resp.code = 0
    /\ "popularity_red_pocket" \in DOMAIN resp.data
    /\ resp.data.popularity_red_pocket # <<>>
FirstPacket == resp.data.popularity_red_pocket[1]
ClosedIsRejected == (PacketsServed /\ FirstPacket.lot_status = 2) => Rejected
OpenIsQueued ==
    (PacketsServed /\ FirstPacket.lot_status # 2)
        => checkedRoomList' =
              Append(checkedRoomList,
                     [uid |-> Head(roomList).uid, lot_id |-> FirstPacket.lot_id,
                      room_id |-> Head(roomList).roomid])
QueuedIsJoinedOnce ==
    (InRedPack /\ JoinStep)
        => /\ checkedRoomList' = Tail(checkedRoomList)
           /\ joined' = joined \cup {Head(checkedRoomList).room_id}

\* C7 as amended: a red packet of status 2 is never joined; a listing of a room with
\* the red-packet badge whose first red packet has another status is joined exactly
\* once, so that a room the run lists on two pages is joined twice
C7_JoinedOncePerListing ==
    /\ [][ClosedIsRejected /\ OpenIsQueued /\ QueuedIsJoinedOnce]_vars
    /\ [](InRedPack => calls.join + Len(checkedRoomList) = nAccepted)
    /\ []((InRedPack /\ pc \in {"done", "raised"}) => calls.join = nAccepted)

\* C7 as stated: ... is joined exactly once during the run
C7_JoinedOncePerRoom ==
    [][/\ ClosedIsRejected
       /\ OpenIsQueued
       /\ (InRedPack /\ JoinStep) => Head(checkedRoomList).room_id \notin joined]_vars

\* a red-packet run has ended with one open red packet found and joined
C7_Witness ==
    /\ InRedPack /\ pc = "done" /\ nAccepted = 1 /\ calls.join = 1 /\ joined = {"r1"}

SubCategories(al) == SeqSum([i \in 1..Len(al) |-> Len(al[i])])
CallCounts ==
    /\ calls.getLiveRoom = SubCategories(areaList) * TaskConfig.LOTTERY_PAGE_NUM
    /\ calls.join = nAccepted

\* C8 as amended: a lottery run that returns has fetched sub-categories times page
\* count pages and has issued one join per accepted room; the successful join of the
\* only accepted room leaves one entry when the draw is a follow draw whose text names
\* no further streamer (one more per further name), and none for a none or level draw
C8_CallCountsAndEntries ==
    /\ []((pc = "done" /\ InLottery) => (CallCounts /\ ret.v = newFollowUp))
    /\ [][(InLottery /\ JoinStep /\ nAccepted = 1 /\ last'.out = "ok")
          => Len(newFollowUp') =
                IF Head(checkedRoomList).require_type = RequireFollow
                THEN 1 + Cardinality(Range(NamesAfterFirst(Head(checkedRoomList).require_text)))
                ELSE 0]_vars

\* C8 as stated: ... when exactly one room is eligible and its join succeeds, the
\* returned list has exactly one entry
C8_OneEligibleOneEntry ==
    (pc = "done" /\ InLottery /\ clean)
        => (CallCounts /\ (nAccepted = 1 => Len(ret.v) = 1))

\* one sub-category, 2 pages, one accepted room, joined: 2 page fetches, 1 join, 1 entry
C8_Witness ==
    /\ pc = "done" /\ InLottery /\ clean /\ SubCategories(areaList) = 1
    /\ calls.getLiveRoom = 2 /\ nAccepted = 1 /\ calls.join = 1 /\ Len(ret.v) = 1

PatternsConfigured == TaskConfig.LOTTERY_EXCLUDE # <<>> \/ TaskConfig.LOTTERY_INCLUDE # <<>>

C10_RoomErrorsIsolated ==
    [][(pc \in {"check", "filter", "join"})
          => (pc' # "raised" /\ Len(newFollowUp') >= Len(newFollowUp))]_vars

\* the draw the next join request is for
NextDraw == IF InLottery THEN Head(checkedRoomList).id ELSE Head(checkedRoomList).lot_id

\* C11 as amended: a join that returned a non-success code or raised is not submitted
\* again for that listing, the run goes on with the next queued room; the same draw
\* gets a further join request only when a later page fetch lists its room again
C11_FailedListingNotRetried ==
    [][JoinStep =>
        /\ checkedRoomList' = Tail(checkedRoomList)
        /\ \A f \in failed : f.id = NextDraw => f.at < calls.getLiveRoom
        /\ last'.out # "ok" => [id |-> NextDraw, at |-> calls.getLiveRoom] \in failed']_vars

\* C11 as stated: once a join for a draw has failed, no further join request for
\* that draw is submitted in the run
C11_FailedDrawNotRejoined ==
    [][JoinStep => \A f \in failed : f.id # NextDraw]_vars

\* a join has failed and the run has gone on to join another draw
C11_Witness ==
    /\ pc \in {"fetch", "return"} /\ calls.join = 2 /\ joined = {"r1", "r2"}
    /\ \E f \in failed : f.id = "r1"

\* the rooms of a listing whose slot-2 badge is id, in listing order
RECURSIVE WithBadge(_, _)
WithBadge(list, id) ==
    IF list = <<>> THEN <<>>
    ELSE (IF Head(list).pendant_info.two = [pendent_id |-> id] THEN <<Head(list)>> ELSE <<>>)
            \o WithBadge(Tail(list), id)

Wanted == IF InLottery THEN PendentTime ELSE PendentRedPacket
Badge(room) == room.pendant_info.two
PageFetched == fetched # Undefined

\* C12: a fetched page is split by the badge in slot 2: the lottery pipeline gets
\* exactly the rooms with the time-lottery badge and the red-packet pipeline exactly
\* those with the red-packet badge, both in listing order; no room is in both subsets,
\* a room without a slot-2 badge or with another badge is in neither; only rooms of
\* the run's subset are checked and queued for a join
C12_BadgePartition ==
    /\ [](PageFetched =>
            /\ roomList = WithBadge(fetched.list, Wanted)
            /\ pendentLottery(fetched.list).lotteryTime = WithBadge(fetched.list, PendentTime)
            /\ pendentLottery(fetched.list).lotteryPacket
                    = WithBadge(fetched.list, PendentRedPacket)
            /\ \A i \in 1..Len(fetched.list) :
                    LET room == fetched.list[i]
                        inTime == room \in Range(pendentLottery(fetched.list).lotteryTime)
                        inPacket == room \in Range(pendentLottery(fetched.list).lotteryPacket)
                    IN  /\ ~(inTime /\ inPacket)
                        /\ Badge(room) \in {Undefined, [pendent_id |-> "Other"]}
                              => (~inTime /\ ~inPacket))
    /\ [](\A i \in 1..Len(roomList) : Badge(roomList[i]) = [pendent_id |-> Wanted])
    /\ [][/\ (pc = "check" /\ pc' = "filter") => UNCHANGED roomList
          /\ (pc = "filter" /\ checkedRoomList' # checkedRoomList)
                => /\ Len(checkedRoomList') = Len(checkedRoomList) + 1
                   /\ checkedRoomList'[Len(checkedRoomList')].uid = Head(roomList).uid
                   /\ SubSeq(checkedRoomList', 1, Len(checkedRoomList)) = checkedRoomList
          /\ JoinStep => joined' = joined \cup {NextDraw}]_vars

\* a page has been fetched that lists a room with the badge the run looks for after a
\* room with another badge
C12_Witness ==
    /\ PageFetched /\ Len(fetched.list) = 2 /\ Len(roomList) = 1
    /\ Badge(fetched.list[1]) = [pendent_id |-> "Other"]
    /\ fetched.list[2] = roomList[1]

Running == pc \notin {"idle", "done", "raised"}

\* C13: within a run the accumulator changes only in a step that answers a join with
\* success: a lottery join that fails or raises, and a successful lottery join of a
\* draw whose requirement type is not follow, leave it unchanged; a red-packet join
\* that fails or raises leaves it unchanged, a successful one appends the owner's uid
C13_AccumulatorFrame ==
    [][/\ (Running /\ ~JoinStep) => UNCHANGED newFollowUp
       /\ (JoinStep /\ last'.out # "ok") => UNCHANGED newFollowUp
       /\ (InLottery /\ JoinStep /\ last'.out = "ok"
              /\ Head(checkedRoomList).require_type # RequireFollow)
            => UNCHANGED newFollowUp
       /\ (InRedPack /\ JoinStep /\ last'.out = "ok")
            => newFollowUp' = newFollowUp \o <<NumEntry(Head(checkedRoomList).uid)>>]_vars

\* a lottery join has raised after an earlier join had recorded entries, which are kept
C13_Witness ==
    /\ InLottery /\ last = [op |-> "joinLottery", out |-> "throw"]
    /\ calls.join = 2 /\ newFollowUp # <<>>

RECURSIVE Concat(_)
Concat(ss) == IF ss = <<>> THEN <<>> ELSE Head(ss) \o Concat(Tail(ss))

\* the page fetches of a run over the category tree al with num pages: major
\* categories in fetch order, their sub-categories in fetch order, pages 1..num
FetchOrder(al, num) ==
    Concat([i \in 1..Len(al) |->
              Concat([j \in 1..Len(al[i]) |->
                        [p \in 1..num |->
                            [parentId |-> al[i][j].parentId, areaId |-> al[i][j].areaId,
                             page |-> p]]])])

IsPrefix(s, t) == Len(s) <= Len(t) /\ s = SubSeq(t, 1, Len(s))

\* C14: the remote calls of a run come one after the other: the page fetches follow
\* the order major category, sub-category, page 1..n; the rooms of a page are checked
\* in listing order, then the accepted ones are joined in that order; the next page
\* is fetched only when every check and join of the page has been answered
C14_CallsInOrder ==
    /\ [](/\ IsPrefix(fetches, FetchOrder(areaList, TaskConfig.LOTTERY_PAGE_NUM))
          /\ pc = "done" => fetches = FetchOrder(areaList, TaskConfig.LOTTERY_PAGE_NUM)
          /\ pc = "join" => roomList = <<>>
          /\ pc \in {"fetch", "return", "done"} => (roomList = <<>> /\ checkedRoomList = <<>>)
          /\ PageFetched => roomList = WithBadge(fetched.list, Wanted))
    /\ [][/\ (pc = "check" /\ pc' = "filter")
                => (arg' = [room |-> Head(roomList).roomid] /\ UNCHANGED roomList)
          /\ (pc \in {"check", "filter"} /\ pc' # "filter" /\ pc' # "raised")
                => (roomList' = Tail(roomList) /\ UNCHANGED arg
                    /\ IsPrefix(checkedRoomList, checkedRoomList'))
          /\ JoinStep
                => /\ arg' = [room |-> NextDraw]
                   /\ checkedRoomList' = Tail(checkedRoomList)
          /\ (pc = "fetch" /\ pc' # "raised")
                => /\ fetches' = Append(fetches,
                          FetchOrder(areaList, TaskConfig.LOTTERY_PAGE_NUM)[Len(fetches) + 1])
                   /\ fetches'[Len(fetches')].page = page]_vars

\* the second sub-category's first page is being fetched after two rooms of the page
\* before it were checked and one of them joined
C14_Witness ==
    /\ pc = "fetch" /\ Len(fetches) = PageNum /\ SubCategories(areaList) = 2
    /\ listed = 2 /\ calls.join = 1 /\ arg # Undefined

\* the latest check request was for the room at the end of the join queue: that room
\* was accepted and no room was requested after it
LastCheckQueued ==
    /\ checkedRoomList # <<>> /\ arg # Undefined
    /\ arg.room = IF InLottery THEN checkedRoomList[Len(checkedRoomList)].id
                  ELSE checkedRoomList[Len(checkedRoomList)].room_id
\* a red-packet check is about to be requested after another one of the same page
BetweenChecks == InRedPack /\ pc = "check" /\ last.op = "checkRedPacket"

\* C15 as amended: two consecutive red-packet checks of a page are separated by a
\* 100ms delay exactly when the first one found an open red packet (the room was
\* queued); after a check that found none, a closed one, a non-success code or an
\* error the next check follows without any delay
C15_DelayOnlyAfterFound ==
    /\ [](BetweenChecks => slept = IF LastCheckQueued THEN <<100>> ELSE <<>>)
    /\ [][(pc = "filter" /\ InRedPack)
            => slept' = IF PacketsServed /\ FirstPacket.lot_status # 2 THEN <<100>>
                        ELSE <<>>]_vars

\* C15 as stated: ... separated by a 100ms delay, whatever the first check returned
C15_DelayBetweenChecks == BetweenChecks => slept = <<100>>

\* the second room of a page is about to be checked right after a check that raised
C15_Witness == BetweenChecks /\ last.out = "throw" /\ slept = <<>>

JoinDelay == IF InRedPack THEN <<200>> ELSE <<300>>
AfterAJoin == last.op \in {"joinLottery", "joinRedPacket"}

\* C16 as amended: every red-packet join is followed by a 200ms delay and every
\* lottery join by a 300ms delay, so that a join other than the first of its page is
\* preceded by that delay with no remote call in between; the first join of a page is
\* preceded by the 100ms delay of the last accepted check when no room was requested
\* after it, and by no delay otherwise
C16_DelayAfterJoin ==
    [][JoinStep =>
        /\ slept' = JoinDelay
        /\ AfterAJoin => slept = JoinDelay
        /\ ~AfterAJoin => slept = IF LastCheckQueued THEN <<100>> ELSE <<>>]_vars

\* C16 as stated: every join request is preceded by its 200ms or 300ms delay,
\* including the first join of each page
C16_DelayBeforeJoin == [][JoinStep => slept = JoinDelay]_vars

\* the second join of a page is about to be requested, 200ms after the first
C16_Witness ==
    /\ InRedPack /\ pc = "join" /\ AfterAJoin /\ slept = <<200>> /\ calls.join = 1

\* C17: the list an entry point returns holds exactly the entries the successful
\* joins of that invocation recorded, nothing of another run, also when another
\* invocation starts before this one has returned
C17_ReturnsOwnEntries == pc = "done" => ret.v = own

Ended == pc \in {"done", "raised"}

\* C18: when every remote call and every delay completes, an invocation of
\* liveLotteryService or liveRedPackService that has started eventually ends: it
\* returns the accumulator or it raises
C18_Terminates == (pc = "area") ~> Ended

\* a run over two major categories, the first of them empty, has fetched every page of
\* the sub-category of the second, joined a room and returned
C18_Witness ==
    /\ pc = "done" /\ Len(areaList) = 2 /\ SubCategories(areaList) = 1
    /\ Len(fetches) = PageNum /\ calls.join = 1 /\ ret.v = newFollowUp

HandlerEnded == fc.pc = "done"
BeforeLine27 == {"JSON5.parse", "import", "dailyHandler.init", "eventJson.payload"}
PayloadJson == JSON5Parse(JSON5Parse(fc.event).v.payload)

\* C19: an invocation of handler that has ended has invoked its callback exactly
\* once, and not at all before: with (null, 'success') when the payload task ran to
\* its end, with (null, message of dailyMain) when dailyMain returned, and with the
\* error when event parsing, initialisation or dailyMain raised
C19_CallbackExactlyOnce ==
    /\ ~HandlerEnded => fc.calls = <<>>
    /\ HandlerEnded =>
        /\ Len(fc.calls) = 1
        /\ fc.task = "completed" <=> fc.calls[1] = [error |-> "null", data |-> "success"]
        /\ fc.dailyMain = "returned"
              <=> (fc.calls[1].error = "null" /\ fc.calls[1].data # "success")
        /\ fc.dailyMain = "returned" => fc.calls[1].data \in Messages
        /\ (fc.raised \in BeforeLine27 \/ fc.dailyMain = "raised")
              <=> fc.calls[1].error # "null"
        /\ fc.calls[1].error # "null" => fc.calls[1] = [error |-> fc.raised, data |-> "undefined"]

\* dailyMain has raised after the payload task had failed: one callback, with the error
C19_Witness ==
    /\ HandlerEnded /\ fc.task = "failed" /\ fc.dailyMain = "raised"
    /\ fc.calls = <<[error |-> "dailyMain", data |-> "undefined"]>>

RunTasksTrueOnlyOnSuccess ==
    /\ fc.runTasks \in {"not called", "running", "true", "false"}
    /\ fc.runTasks = "true"
          => /\ PayloadJson # Thrown /\ PayloadJson.v # Null
             /\ Truthy(Prop(PayloadJson.v, "task"))
             /\ fc.task = "completed"
FallsThrough ==
    /\ fc.task = "failed" => (fc.runTasks = "false" /\ fc.dailyMain # "not called")
    /\ (fc.runTasks = "false" /\ PayloadJson = Thrown) => fc.dailyMain # "not called"
    /\ fc.runTasks = "false" => (fc.raised \in {"none", "dailyMain"})
    /\ fc.runTasks = "true"
          => (fc.dailyMain = "not called"
              /\ fc.calls = <<[error |-> "null", data |-> "success"]>>)

\* C20 as amended: runTasks never raises and returns true only when the payload
\* parses, names a task and the task completes; once event parsing and initialisation
\* have succeeded, the handler runs dailyMain exactly when runTasks was not called or
\* returned false (when they raise, neither runTasks nor dailyMain runs); a failed
\* task or an unparsable payload falls through to dailyMain, a successful task
\* suppresses it
C20_DailyMainUnlessTaskRan ==
    HandlerEnded =>
        /\ RunTasksTrueOnlyOnSuccess
        /\ FallsThrough
        /\ fc.raised \notin BeforeLine27
              => (fc.dailyMain # "not called" <=> fc.runTasks \in {"not called", "false"})
        /\ fc.raised \in BeforeLine27
              => (fc.dailyMain = "not called" /\ fc.runTasks = "not called")

\* C20 as stated: ... the handler runs dailyMain if and only if runTasks was not
\* called or returned false
C20_DailyMainIffNoTaskRan ==
    HandlerEnded =>
        /\ RunTasksTrueOnlyOnSuccess
        /\ fc.dailyMain # "not called" <=> fc.runTasks \in {"not called", "false"}

\* a payload that does not parse has fallen through to dailyMain, which returned
C20_Witness ==
    /\ HandlerEnded /\ fc.runTasks = "false" /\ PayloadJson = Thrown
    /\ fc.dailyMain = "returned" /\ fc.calls = <<[error |-> "null", data |-> "msg"]>>

====
